---- MODULE Spec2Model ----
(***************************************************************************)
(* Model of the smart contract packaging command                          *)
(* (client/src/commands/packageSmartContractCommand.ts).                   *)
(*                                                                         *)
(* Every invocation of packageSmartContract is a run.  A run is cut at the *)
(* awaits of the code that touch the disk or ask the user something; the   *)
(* code between two awaits, and every catch block that a throw reaches, is *)
(* part of one action.                                                     *)
(*                                                                         *)
(* Paths are sequences of segments: "/pkgs/go/src/x@v1" is                 *)
(* <<"pkgs", "go", "src", "x@v1">>.                                         *)
(***************************************************************************)
EXTENDS Integers, Sequences, FiniteSets, TLC

\* Number of invocations of packageSmartContract in one behaviour.
MaxRuns == 2

Procs == 1..MaxRuns

\* Number of files a failing fs.copy has written at most.
MaxPartial == 1

-----------------------------------------------------------------------------
(* JavaScript values *)

\* The value undefined where a string is expected.
Undefined == "<undefined>"

\* The value undefined where a path is expected.
UndefinedPath == <<"<undefined>">>

\* The properties object of getFinalDirectory when the resolver returned
\* undefined.
UndefinedProperties ==
    [defined |-> FALSE, workspacePackageName |-> Undefined,
     workspacePackageVersion |-> Undefined]

\* !x of a string or undefined is false.
Truthy(x) == x # Undefined /\ x # ""

\* String(x), the conversion string concatenation (x + '...') applies.
StringOf(x) == IF x = Undefined THEN "undefined" ELSE x

\* An Error object: its name, message and code.
NewError(message) == [name |-> "Error", message |-> message, code |-> Undefined]

TypeError(message) == [name |-> "TypeError", message |-> message, code |-> Undefined]

SystemError(code, message) == [name |-> "Error", message |-> message, code |-> code]

\* String(err), which is what new Error(err) takes as its message and what
\* showErrorMessage(err) displays.
ErrorToString(err) == err.name \o ": " \o err.message

\* throw new Error(err) in a catch block.
Rethrow(err) == NewError(ErrorToString(err))

-----------------------------------------------------------------------------
(* The messages of the command *)

MsgWorkspaceFolders == "Issue determining available workspace folder options"

MsgLanguage == "Failed to determine workspace language type, please ensure your project contains a chaincode file in the correct format (**/*.js, **/.ts, **/*.go)!"

MsgCompile == "Please ensure you have compiled your typescript files into javascript."

MsgPackageJson == "Please enter a package name and/or package version into your package.json"

MsgGoInput == "Could not create package directory, please input a name or version for your go project."

MsgGoExists == "Could not create package directory, please input a different name or version for your go project."

MsgJsExists == "Please change the name and/or the version of the project in your package.json file."

MsgPackaged == "Smart Contract packaged: "

RefreshEntry == "blockchainAPackageExplorer.refreshEntry"

-----------------------------------------------------------------------------
(* Paths *)

RECURSIVE PathToString(_)
\* A path written with separators, as the messages show it.
PathToString(p) == IF p = <<>> THEN "" ELSE "/" \o Head(p) \o PathToString(Tail(p))

\* The home directory home-dir resolves "~" to.
HomeDirectory == <<"home", "user">>

\* homeDir(rest): the rest of the path under the home directory.
homeDir(rest) == HomeDirectory \o rest

\* The segments path.join keeps of a language string.
Segments(language) ==
    CASE language = "/javascript/" -> <<"javascript">>
      [] language = "/typescript/" -> <<"typescript">>
      [] language = "/go/src/" -> <<"go", "src">>

\* The path itself and every ancestor of it below the root.
Ancestors(p) == {SubSeq(p, 1, n) : n \in 1..Len(p)}

-----------------------------------------------------------------------------
(* The workspace: open folders and what they hold *)

\* A file of a project: the directory it is in, relative to the project
\* root, its base name and its extension.
File(d, b, e) == [dir |-> d, base |-> b, ext |-> e]

ChaincodeJs == File(<<>>, "chaincode", "js")
ChaincodeTs == File(<<>>, "chaincode", "ts")
ChaincodeGo == File(<<>>, "chaincode", "go")
DependencyJs == File(<<"node_modules">>, "dep", "js")
PackageJsonFile == File(<<>>, "package", "json")

\* The source files a project of the model may hold.
SourceFiles == {ChaincodeJs, ChaincodeTs, ChaincodeGo, DependencyJs}

\* A project without package.json (or with one that cannot be read).
NoManifest == [present |-> FALSE, name |-> Undefined, version |-> Undefined]

\* The parsed package.json: name and version are absent (undefined), empty
\* or set.
Manifest(n, v) == [present |-> TRUE, name |-> n, version |-> v]

ManifestNames == {Undefined, "", "foo"}
ManifestVersions == {Undefined, "", "0.0.1"}

Manifests ==
    {NoManifest} \cup {Manifest(n, v) : n \in ManifestNames, v \in ManifestVersions}

\* What a project folder holds.
Projects == [src : SUBSET SourceFiles, manifest : Manifests]

\* Every file of a project, package.json included.
FilesOf(project) ==
    project.src \cup (IF project.manifest.present THEN {PackageJsonFile} ELSE {})

\* The path of a file below the root it is in.
RelativePath(f) == f.dir \o <<f.base \o "." \o f.ext>>

\* folder.uri.path of the workspace folder of a name.
FolderPath(name) == <<"workspace", name>>

\* The three projects the packaging tests create (createTestFiles).
TestWorkspace ==
    [n \in {"javascriptProject", "typescriptProject", "goProject"} |->
        CASE n = "javascriptProject" ->
                [src |-> {ChaincodeJs}, manifest |-> Manifest(n, "0.0.1")]
          [] n = "typescriptProject" ->
                [src |-> {ChaincodeJs, ChaincodeTs}, manifest |-> Manifest(n, "0.0.1")]
          [] n = "goProject" ->
                [src |-> {ChaincodeGo}, manifest |-> NoManifest]]

\* The workspaces of the model: nothing open, one folder holding any
\* project, or the three folders of the tests.
Workspaces ==
    {[n \in {} |-> NoManifest]}
        \cup {[n \in {"project"} |-> c] : c \in Projects}
        \cup {TestWorkspace}

\* The values of the setting fabric.package.directory.
PackageDirectories == {<<"~", "packages">>, <<"pkgs">>}

\* What the user may type at the two Go prompts; undefined is a cancelled
\* prompt.
GoNames == {Undefined, "", "goProject"}
GoVersions == {Undefined, "", "0.0.1"}

-----------------------------------------------------------------------------
(* State *)

VARIABLES
    configuration,      \* the setting fabric.package.directory
    workspaceFolders,   \* open folder name -> project
    fs,                 \* the disk below the package directory
    run,                \* per invocation: position, locals, what it showed
    runtimes,           \* FabricRuntimeManager: runtime name -> runtime
    toggle,             \* per invocation of toggleFabricRuntimeDevMode
    explorer            \* BlockchainPackageExplorerProvider

vars == <<configuration, workspaceFolders, fs, run, runtimes, toggle, explorer>>

\* The runtimes of the manager; the tests add local_fabric.
RuntimeNames == {"local_fabric", "other_fabric"}

Runtimes == [RuntimeNames -> [developmentMode : BOOLEAN, running : BOOLEAN]]

StoppedRuntimes ==
    [n \in RuntimeNames |-> [developmentMode |-> FALSE, running |-> FALSE]]

IdleToggle ==
    [pc |-> "idle",
     runtimeTreeItem |-> Undefined,
     runtimeName |-> Undefined,
     oldDevelopmentMode |-> FALSE,
     newDevelopmentMode |-> FALSE,
     running |-> FALSE,
     quickPicks |-> 0,       \* showRuntimeQuickPickBox calls
     restarts |-> <<>>,      \* restart calls: argument, mode at the call
     trace |-> <<>>,         \* methods of the runtime awaited, in order
     runtimesStart |-> StoppedRuntimes,
     result |-> "none"]

\* The provider as constructed (line 22) and what its last getChildren
\* did: whether it returned a tree, the messages it showed, and the
\* invocations that had written their package by then.
NewExplorer ==
    [tree |-> {}, returned |-> FALSE, errors |-> <<>>, infos |-> {}, after |-> {}]

\* No invocation of toggleFabricRuntimeDevMode has been made and the
\* package explorer has not been opened.
NoToggle ==
    /\ runtimes = StoppedRuntimes
    /\ toggle = [p \in Procs |-> IdleToggle]
    /\ explorer = NewExplorer

\* What an invocation was given by the user and the environment.
NoInput ==
    [retrievalFails |-> FALSE, pick |-> Undefined,
     name |-> Undefined, version |-> Undefined,
     statFails |-> FALSE, mkdirpFails |-> FALSE, copyFails |-> FALSE]

IdleRun ==
    [pc |-> "idle",
     packageDir |-> UndefinedPath,
     workspaceDir |-> UndefinedPath,
     language |-> Undefined,
     properties |-> UndefinedProperties,
     dir |-> UndefinedPath,
     errors |-> <<>>,        \* showErrorMessage calls, in order
     infos |-> <<>>,         \* showInformationMessage calls, in order
     commands |-> <<>>,      \* executeCommand calls, in order
     trace |-> <<>>,         \* functions of the command entered, in order
     input |-> NoInput,
     fsStart |-> [dirs |-> {}, files |-> {}],
     result |-> "none"]

Init ==
    /\ configuration \in PackageDirectories
    /\ workspaceFolders \in Workspaces
    /\ fs = [dirs |-> {}, files |-> {}]
    /\ run = [p \in Procs |-> IdleRun]
    /\ NoToggle

-----------------------------------------------------------------------------
(* packageSmartContract *)

\* The catch of packageSmartContract ending the invocation without a message.
CaughtSilently(r, err) ==
    [r EXCEPT !.pc = "done",
              !.result = "Failed"]

\* The catch block of packageSmartContract: the error is shown and the
\* invocation ends.
Caught(r, err) ==
    [r EXCEPT !.errors = Append(@, ErrorToString(err)),
              !.pc = "done",
              !.result = "Failed"]

\* showErrorMessage(message) of a stage, before it throws.
Shown(r, messages) == [r EXCEPT !.errors = @ \o messages]

Entered(r, function) == [r EXCEPT !.trace = Append(@, function)]

getBasePackageDir(packageDir) ==
    IF Head(packageDir) = "~" THEN homeDir(Tail(packageDir)) ELSE packageDir

\* What a function of the command did: returned value, or showed the
\* messages of shown and threw err.
Return(value) == [threw |-> FALSE, shown |-> <<>>, value |-> value]

Throw(shown, err) == [threw |-> TRUE, shown |-> shown, err |-> err]

\* An invocation starts: the setting is read and "~" replaced.  The
\* invocations of a behaviour follow each other.
Start(p) ==
    /\ run[p].pc = "idle"
    /\ \A q \in Procs : q < p => run[q].pc = "done"
    /\ run' = [run EXCEPT ![p] =
            [@ EXCEPT !.pc = "chooseWorkspace",
                      !.packageDir = getBasePackageDir(configuration),
                      !.fsStart = fs]]
    /\ UNCHANGED <<configuration, workspaceFolders, fs, runtimes, toggle, explorer>>

-----------------------------------------------------------------------------
(* chooseWorkspace *)

\* CommandsUtil.getWorkspaceFolders: the names of the open folders; it
\* throws when no folder is open or the list cannot be retrieved.
getWorkspaceFolders(retrievalFails) ==
    IF retrievalFails \/ DOMAIN workspaceFolders = {}
    THEN Throw(<<>>, TypeError("workspace folders"))
    ELSE Return(DOMAIN workspaceFolders)

\* chooseWorkspace with a catch block that swallows the error.
chooseWorkspaceSwallows(retrievalFails, pick) ==
    LET options == getWorkspaceFolders(retrievalFails) IN
    IF options.threw
    THEN Return(UndefinedPath)
    ELSE IF Cardinality(options.value) > 1
    THEN Return(IF pick \in options.value THEN FolderPath(pick) ELSE UndefinedPath)
    ELSE Return(FolderPath(CHOOSE n \in options.value : TRUE))

chooseWorkspace(retrievalFails, pick) ==
    LET options == getWorkspaceFolders(retrievalFails) IN
    IF options.threw
    THEN Throw(<<MsgWorkspaceFolders>>, NewError(MsgWorkspaceFolders))
    ELSE
        LET workspaceFolderOptions == options.value
            workspaceFolder ==
                IF Cardinality(workspaceFolderOptions) > 1 THEN pick
                ELSE IF workspaceFolderOptions = {} THEN Undefined
                ELSE CHOOSE n \in workspaceFolderOptions : TRUE
        IN  IF workspaceFolder \notin workspaceFolderOptions
            THEN Return(UndefinedPath)
            ELSE Return(FolderPath(workspaceFolder))

\* The answers the quick pick can give: it is shown only when several
\* folders are open and the list was retrieved.
QuickPickAnswers(retrievalFails) ==
    IF ~retrievalFails /\ Cardinality(DOMAIN workspaceFolders) > 1
    THEN DOMAIN workspaceFolders \cup {Undefined}
    ELSE {Undefined}

ChooseWorkspace(p) ==
    /\ run[p].pc = "chooseWorkspace"
    /\ \E retrievalFails \in BOOLEAN :
       \E pick \in QuickPickAnswers(retrievalFails) :
          LET r == [Entered(run[p], "chooseWorkspace") EXCEPT
                        !.input.retrievalFails = retrievalFails,
                        !.input.pick = pick]
              out == chooseWorkspace(retrievalFails, pick)
          IN  run' = [run EXCEPT ![p] =
                  IF out.threw
                  THEN Caught(Shown(r, out.shown), out.err)
                  ELSE [r EXCEPT !.workspaceDir = out.value,
                                 !.pc = "getLanguage"]]
    /\ UNCHANGED <<configuration, workspaceFolders, fs, runtimes, toggle, explorer>>

-----------------------------------------------------------------------------
(* getFinalDirectory: language *)

Range(s) == {s[i] : i \in 1..Len(s)}

\* Glob('**/*.<ext>', {ignore: '**/node_modules/**'}) over the files of a
\* project.
Glob(files, ext) ==
    {f \in files : f.ext = ext /\ "node_modules" \notin Range(f.dir)}

\* The project in the folder of a path.
ProjectAt(workspaceDir) ==
    workspaceFolders[CHOOSE n \in DOMAIN workspaceFolders : FolderPath(n) = workspaceDir]

\* getLanguage with the Go branch tested first.
getLanguageGoFirst(workspaceDir) ==
    IF workspaceDir = UndefinedPath
    THEN Throw(<<>>, TypeError("Path must be a string. Received undefined"))
    ELSE
        LET files == FilesOf(ProjectAt(workspaceDir))
            jsFiles == Glob(files, "js")
            tsFiles == Glob(files, "ts")
            goFiles == Glob(files, "go")
        IN  IF Cardinality(goFiles) > 0
            THEN Return("/go/src/")
            ELSE IF Cardinality(jsFiles) > 0 /\ Cardinality(tsFiles) > 0
            THEN Return("/typescript/")
            ELSE IF Cardinality(tsFiles) > 0 /\ Cardinality(jsFiles) = 0
            THEN Throw(<<MsgCompile>>, NewError(MsgCompile))
            ELSE IF Cardinality(jsFiles) > 0
            THEN Return("/javascript/")
            ELSE Return(Undefined)

\* getLanguage without the branch for uncompiled TypeScript.
getLanguageAnyTs(workspaceDir) ==
    IF workspaceDir = UndefinedPath
    THEN Throw(<<>>, TypeError("Path must be a string. Received undefined"))
    ELSE
        LET files == FilesOf(ProjectAt(workspaceDir))
            jsFiles == Glob(files, "js")
            tsFiles == Glob(files, "ts")
            goFiles == Glob(files, "go")
        IN  IF Cardinality(tsFiles) > 0
            THEN Return("/typescript/")
            ELSE IF Cardinality(goFiles) > 0
            THEN Return("/go/src/")
            ELSE IF Cardinality(jsFiles) > 0
            THEN Return("/javascript/")
            ELSE Return(Undefined)

\* getLanguage that falls back to JavaScript when nothing matches.
getLanguageDefaultJs(workspaceDir) ==
    IF workspaceDir = UndefinedPath
    THEN Throw(<<>>, TypeError("Path must be a string. Received undefined"))
    ELSE
        LET files == FilesOf(ProjectAt(workspaceDir))
            jsFiles == Glob(files, "js")
            tsFiles == Glob(files, "ts")
            goFiles == Glob(files, "go")
        IN  IF Cardinality(jsFiles) > 0 /\ Cardinality(tsFiles) > 0
            THEN Return("/typescript/")
            ELSE IF Cardinality(tsFiles) > 0 /\ Cardinality(jsFiles) = 0
            THEN Throw(<<MsgCompile>>, NewError(MsgCompile))
            ELSE IF Cardinality(goFiles) > 0
            THEN Return("/go/src/")
            ELSE Return("/javascript/")

\* glob resolves its cwd option with path.resolve, which throws on
\* undefined.
getLanguage(workspaceDir) ==
    IF workspaceDir = UndefinedPath
    THEN Throw(<<>>, TypeError("Path must be a string. Received undefined"))
    ELSE
        LET files == FilesOf(ProjectAt(workspaceDir))
            jsFiles == Glob(files, "js")
            tsFiles == Glob(files, "ts")
            goFiles == Glob(files, "go")
        IN  IF Cardinality(jsFiles) > 0 /\ Cardinality(tsFiles) > 0
            THEN Return("/typescript/")
            ELSE IF Cardinality(tsFiles) > 0 /\ Cardinality(jsFiles) = 0
            THEN Throw(<<MsgCompile>>, NewError(MsgCompile))
            ELSE IF Cardinality(goFiles) > 0
            THEN Return("/go/src/")
            ELSE IF Cardinality(jsFiles) > 0
            THEN Return("/javascript/")
            ELSE Return(Undefined)

\* getFinalDirectory reading package.json whatever the language is.
GetLanguageReadsManifest(p) ==
    /\ run[p].pc = "getLanguage"
    /\ LET r == Entered(Entered(run[p], "getFinalDirectory"), "getLanguage")
           out == getLanguage(run[p].workspaceDir)
       IN  run' = [run EXCEPT ![p] =
               IF out.threw
               THEN Caught(Shown(r, out.shown), out.err)
               ELSE IF ~Truthy(out.value)
               THEN Caught(Shown(r, <<MsgLanguage>>), NewError(MsgLanguage))
               ELSE [r EXCEPT !.language = out.value,
                              !.pc = "packageJsonNameAndVersion"]]
    /\ UNCHANGED <<configuration, workspaceFolders, fs, runtimes, toggle, explorer>>

\* getFinalDirectory up to the choice of the resolver (lines 106-120).
GetLanguage(p) ==
    /\ run[p].pc = "getLanguage"
    /\ LET r == Entered(Entered(run[p], "getFinalDirectory"), "getLanguage")
           out == getLanguage(run[p].workspaceDir)
       IN  run' = [run EXCEPT ![p] =
               IF out.threw
               THEN Caught(Shown(r, out.shown), out.err)
               ELSE IF ~Truthy(out.value)
               THEN Caught(Shown(r, <<MsgLanguage>>), NewError(MsgLanguage))
               ELSE [r EXCEPT !.language = out.value,
                              !.pc = IF out.value = "/go/src/"
                                     THEN "golangPackageAndVersion"
                                     ELSE "packageJsonNameAndVersion"]]
    /\ UNCHANGED <<configuration, workspaceFolders, fs, runtimes, toggle, explorer>>

-----------------------------------------------------------------------------
(* getFinalDirectory: name and version *)

Properties(name, version) ==
    [defined |-> TRUE, workspacePackageName |-> name,
     workspacePackageVersion |-> version]

\* The second prompt is shown only when the first was answered.
golangPackageAndVersion(workspacePackageName, workspacePackageVersion) ==
    IF ~Truthy(workspacePackageName)
    THEN Return(UndefinedProperties)
    ELSE IF Truthy(workspacePackageVersion)
    THEN Return(UndefinedProperties)
    ELSE IF workspacePackageName = "" \/ workspacePackageVersion = ""
    THEN Throw(<<MsgGoInput>>, NewError(MsgGoInput))
    ELSE Return(Properties(workspacePackageName, workspacePackageVersion))

\* packageJsonNameAndVersion failing only when both fields are missing.
packageJsonNameAndVersionBoth(workspaceDir) ==
    LET workspacePackageObj == ProjectAt(workspaceDir).manifest
        workspacePackageName == workspacePackageObj.name
        workspacePackageVersion == workspacePackageObj.version
    IN  IF ~workspacePackageObj.present
        THEN Throw(<<>>, SystemError("ENOENT", "ENOENT: no such file or directory"))
        ELSE IF ~Truthy(workspacePackageName) /\ ~Truthy(workspacePackageVersion)
        THEN Throw(<<MsgPackageJson>>, NewError(MsgPackageJson))
        ELSE Return(Properties(workspacePackageName, workspacePackageVersion))

\* fs.readFile rejects when there is no package.json to read.
packageJsonNameAndVersion(workspaceDir) ==
    LET workspacePackageObj == ProjectAt(workspaceDir).manifest
        workspacePackageName == workspacePackageObj.name
        workspacePackageVersion == workspacePackageObj.version
    IN  IF ~workspacePackageObj.present
        THEN Throw(<<>>, SystemError("ENOENT", "ENOENT: no such file or directory"))
        ELSE IF ~Truthy(workspacePackageName) \/ ~Truthy(workspacePackageVersion)
        THEN Throw(<<MsgPackageJson>>, NewError(MsgPackageJson))
        ELSE Return(Properties(workspacePackageName, workspacePackageVersion))

\* The directory joined without the language segment.
FinalDirectoryFlat(packageDir, language, properties) ==
    packageDir
        \o <<StringOf(properties.workspacePackageName) \o "@v"
                \o StringOf(properties.workspacePackageVersion)>>

\* path.join(packageDir, language, name + '@v' + version), line 121.
FinalDirectory(packageDir, language, properties) ==
    packageDir \o Segments(language)
        \o <<StringOf(properties.workspacePackageName) \o "@v"
                \o StringOf(properties.workspacePackageVersion)>>

\* Line 121 with the resolver's result: reading a property of undefined
\* throws.
JoinDirectory(packageDir, language, properties) ==
    IF ~properties.defined
    THEN Throw(<<>>, TypeError("Cannot read property 'workspacePackageName' of undefined"))
    ELSE Return(FinalDirectory(packageDir, language, properties))

\* The rest of getFinalDirectory up to the await of fs.stat.
Resolved(r, out) ==
    IF out.threw
    THEN Caught(Shown(r, out.shown), out.err)
    ELSE LET joined == JoinDirectory(r.packageDir, r.language, out.value) IN
         IF joined.threw
         THEN Caught([r EXCEPT !.properties = out.value], joined.err)
         ELSE [r EXCEPT !.properties = out.value,
                        !.dir = joined.value,
                        !.pc = "stat"]

GolangPackageAndVersion(p) ==
    /\ run[p].pc = "golangPackageAndVersion"
    /\ \E name \in GoNames :
       \E version \in (IF Truthy(name) THEN GoVersions ELSE {Undefined}) :
          LET r == [Entered(run[p], "golangPackageAndVersion") EXCEPT
                        !.input.name = name,
                        !.input.version = version]
          IN  run' = [run EXCEPT ![p] =
                          Resolved(r, golangPackageAndVersion(name, version))]
    /\ UNCHANGED <<configuration, workspaceFolders, fs, runtimes, toggle, explorer>>

PackageJsonNameAndVersion(p) ==
    /\ run[p].pc = "packageJsonNameAndVersion"
    /\ LET r == Entered(run[p], "packageJsonNameAndVersion")
       IN  run' = [run EXCEPT ![p] =
                       Resolved(r, packageJsonNameAndVersion(run[p].workspaceDir))]
    /\ UNCHANGED <<configuration, workspaceFolders, fs, runtimes, toggle, explorer>>

-----------------------------------------------------------------------------
(* getFinalDirectory: the existing package *)

\* fs.stat(dir): the Stats of the entry, or the error it rejects with.
\* A stat that takes a directory holding no file for a missing one.
statSeesFiles(dir, statFails) ==
    IF statFails
    THEN Throw(<<>>, SystemError("EACCES", "EACCES: permission denied"))
    ELSE IF /\ dir \in fs.dirs
            /\ \E f \in fs.files : Len(f) > Len(dir) /\ SubSeq(f, 1, Len(dir)) = dir
    THEN Return([isDirectory |-> TRUE])
    ELSE IF dir \in fs.files
    THEN Return([isDirectory |-> FALSE])
    ELSE Throw(<<>>, SystemError("ENOENT", "ENOENT: no such file or directory"))

stat(dir, statFails) ==
    IF statFails
    THEN Throw(<<>>, SystemError("EACCES", "EACCES: permission denied"))
    ELSE IF dir \in fs.dirs
    THEN Return([isDirectory |-> TRUE])
    ELSE IF dir \in fs.files
    THEN Return([isDirectory |-> FALSE])
    ELSE Throw(<<>>, SystemError("ENOENT", "ENOENT: no such file or directory"))

ExistsMessage(language) ==
    IF language = "/go/src/" THEN MsgGoExists ELSE MsgJsExists

\* The probe that returns the directory whatever fs.stat finds.
ProbeDirectoryAlways(language, dir, statFails) ==
    LET st == stat(dir, statFails) IN
    IF st.threw /\ st.err.code # "ENOENT"
    THEN Throw(<<ErrorToString(st.err)>>, Rethrow(st.err))
    ELSE [threw |-> FALSE, shown |-> <<>>, value |-> dir]

\* The probe that shows the message of the existing package and goes on.
ProbeDirectoryWarns(language, dir, statFails) ==
    LET st == stat(dir, statFails) IN
    IF st.threw /\ st.err.code # "ENOENT"
    THEN Throw(<<ErrorToString(st.err)>>, Rethrow(st.err))
    ELSE IF ~st.threw /\ st.value.isDirectory
    THEN [threw |-> FALSE, shown |-> <<ExistsMessage(language)>>, value |-> dir]
    ELSE [threw |-> FALSE, shown |-> <<>>, value |-> dir]

\* Lines 122-141.  The error thrown in the try block is caught by the catch
\* block below it, as the errors of fs.stat are.
ProbeDirectory(language, dir, statFails) ==
    LET st == stat(dir, statFails)
        message == ExistsMessage(language)
        thrown ==
            IF st.threw THEN Throw(<<>>, st.err)
            ELSE IF st.value.isDirectory
            THEN Throw(<<message>>, NewError(message))
            ELSE Return(UndefinedPath)
    IN  IF ~thrown.threw
        THEN thrown
        ELSE IF thrown.err.code = "ENOENT"
        THEN [threw |-> FALSE, shown |-> thrown.shown, value |-> dir]
        ELSE Throw(Append(thrown.shown, ErrorToString(thrown.err)),
                   Rethrow(thrown.err))

Stat(p) ==
    /\ run[p].pc = "stat"
    /\ \E statFails \in BOOLEAN :
          LET r == [Entered(run[p], "fs.stat") EXCEPT !.input.statFails = statFails]
              out == ProbeDirectory(r.language, r.dir, statFails)
          IN  run' = [run EXCEPT ![p] =
                  IF out.threw
                  THEN Caught(Shown(r, out.shown), out.err)
                  ELSE [Shown(r, out.shown) EXCEPT !.dir = out.value,
                                                   !.pc = "mkdirp"]]
    /\ UNCHANGED <<configuration, workspaceFolders, fs, runtimes, toggle, explorer>>

-----------------------------------------------------------------------------
(* createAndPackage *)

\* A mkdir that rejects a directory that is already there.
mkdirExclusive(dir, mkdirpFails) ==
    IF dir = UndefinedPath
    THEN Throw(<<>>, TypeError("Path must be a string. Received undefined"))
    ELSE IF mkdirpFails
    THEN Throw(<<>>, SystemError("EACCES", "EACCES: permission denied"))
    ELSE IF Ancestors(dir) \cap fs.files # {} \/ dir \in fs.dirs
    THEN Throw(<<>>, SystemError("EEXIST", "EEXIST: file already exists"))
    ELSE Return([fs EXCEPT !.dirs = @ \cup Ancestors(dir)])

\* fs.mkdirp(dir): the directory and its missing ancestors are created; a
\* path that is undefined, or that runs through a file, is rejected.
mkdirp(dir, mkdirpFails) ==
    IF dir = UndefinedPath
    THEN Throw(<<>>, TypeError("Path must be a string. Received undefined"))
    ELSE IF mkdirpFails
    THEN Throw(<<>>, SystemError("EACCES", "EACCES: permission denied"))
    ELSE IF Ancestors(dir) \cap fs.files # {}
    THEN Throw(<<>>, SystemError("EEXIST", "EEXIST: file already exists"))
    ELSE Return([fs EXCEPT !.dirs = @ \cup Ancestors(dir)])

\* The disk after fs.copy has written the files of copied below dir.
Written(disk, dir, copied) ==
    [dirs |-> disk.dirs \cup UNION {Ancestors(dir \o f.dir) : f \in copied},
     files |-> disk.files \cup {dir \o RelativePath(f) : f \in copied}]

\* fs.copy(workspaceDir, dir) copies only the chaincode files.
copyChaincodeOnly(disk, workspaceDir, dir) ==
    LET files == FilesOf(ProjectAt(workspaceDir)) IN
    Written(disk, dir, Glob(files, "js") \cup Glob(files, "ts") \cup Glob(files, "go"))

\* fs.copy(workspaceDir, dir): every file and directory of the folder, no
\* filter being given.
copy(disk, workspaceDir, dir) ==
    Written(disk, dir, FilesOf(ProjectAt(workspaceDir)))

\* What a failing fs.copy may have written before it failed.
PartialCopies(files) ==
    {copied \in SUBSET files : copied # files /\ Cardinality(copied) <= MaxPartial}

\* The catch block that also tells the user the package was written.
CreateAndPackageCaughtInforms(r, err) ==
    Caught([Shown(r, <<ErrorToString(err)>>) EXCEPT
                !.infos = Append(@, MsgPackaged \o PathToString(r.dir))],
           Rethrow(err))

\* The catch block that shows the error and does not throw it again.
CreateAndPackageCaughtSwallows(r, err) ==
    [Shown(r, <<ErrorToString(err)>>) EXCEPT !.pc = "refreshEntry"]

\* The catch block of createAndPackage, lines 231-234.
CreateAndPackageCaught(r, err) ==
    Caught(Shown(r, <<ErrorToString(err)>>), Rethrow(err))

Mkdirp(p) ==
    /\ run[p].pc = "mkdirp"
    /\ \E mkdirpFails \in (IF run[p].dir = UndefinedPath THEN {FALSE} ELSE BOOLEAN) :
          LET r == [Entered(Entered(run[p], "createAndPackage"), "fs.mkdirp")
                        EXCEPT !.input.mkdirpFails = mkdirpFails]
              out == mkdirp(r.dir, mkdirpFails)
          IN  IF out.threw
              THEN /\ run' = [run EXCEPT ![p] = CreateAndPackageCaught(r, out.err)]
                   /\ fs' = fs
              ELSE /\ run' = [run EXCEPT ![p] = [r EXCEPT !.pc = "copy"]]
                   /\ fs' = out.value
    /\ UNCHANGED <<configuration, workspaceFolders, runtimes, toggle, explorer>>

Copy(p) ==
    /\ run[p].pc = "copy"
    /\ LET files == FilesOf(ProjectAt(run[p].workspaceDir))
           r == Entered(run[p], "fs.copy")
       IN  \/ /\ fs' = copy(fs, r.workspaceDir, r.dir)
              /\ run' = [run EXCEPT ![p] =
                     [r EXCEPT !.infos = Append(@, MsgPackaged \o PathToString(r.dir)),
                               !.pc = "refreshEntry"]]
           \/ \E copied \in PartialCopies(files) :
                 /\ fs' = Written(fs, r.dir, copied)
                 /\ run' = [run EXCEPT ![p] =
                        CreateAndPackageCaught(
                            [r EXCEPT !.input.copyFails = TRUE],
                            SystemError("EIO", "EIO: i/o error"))]
    /\ UNCHANGED <<configuration, workspaceFolders, runtimes, toggle, explorer>>

\* packageSmartContract returning without the refresh.
ReturnWithoutRefresh(p) ==
    /\ run[p].pc = "refreshEntry"
    /\ run' = [run EXCEPT ![p] = [@ EXCEPT !.pc = "done", !.result = "Written"]]
    /\ UNCHANGED <<configuration, workspaceFolders, fs, runtimes, toggle, explorer>>

\* Line 36: the explorer is refreshed and the invocation returns.
ExecuteRefreshEntry(p) ==
    /\ run[p].pc = "refreshEntry"
    /\ run' = [run EXCEPT ![p] =
           [@ EXCEPT !.commands = Append(@, RefreshEntry),
                     !.pc = "done",
                     !.result = "Written"]]
    /\ UNCHANGED <<configuration, workspaceFolders, fs, runtimes, toggle, explorer>>

-----------------------------------------------------------------------------

Next ==
    \E p \in Procs :
        \/ Start(p)
        \/ ChooseWorkspace(p)
        \/ GetLanguage(p)
        \/ GolangPackageAndVersion(p)
        \/ PackageJsonNameAndVersion(p)
        \/ Stat(p)
        \/ Mkdirp(p)
        \/ Copy(p)
        \/ ExecuteRefreshEntry(p)

Spec == Init /\ [][Next]_vars

\* The command invoked again while earlier invocations are still awaiting:
\* an invocation is an async function and nothing keeps a second one from
\* starting.  Invocations are interchangeable, so they start in the order of
\* their numbers.
StartConcurrently(p) ==
    /\ run[p].pc = "idle"
    /\ \A q \in Procs : q < p => run[q].pc # "idle"
    /\ run' = [run EXCEPT ![p] =
            [@ EXCEPT !.pc = "chooseWorkspace",
                      !.packageDir = getBasePackageDir(configuration),
                      !.fsStart = fs]]
    /\ UNCHANGED <<configuration, workspaceFolders, fs, runtimes, toggle, explorer>>

\* The workspaces of the concurrent invocations: the folders of the tests,
\* or one folder with a JavaScript or a Go project.
ConcurrentWorkspaces ==
    {TestWorkspace}
        \cup {[n \in {"project"} |-> c] :
                c \in {[src |-> {ChaincodeJs}, manifest |-> Manifest("foo", "0.0.1")],
                       [src |-> {ChaincodeGo}, manifest |-> NoManifest]}}

InitConcurrent ==
    /\ configuration = <<"pkgs">>
    /\ workspaceFolders \in ConcurrentWorkspaces
    /\ fs = [dirs |-> {}, files |-> {}]
    /\ run = [p \in Procs |-> IdleRun]
    /\ NoToggle

NextConcurrent ==
    \E p \in Procs :
        \/ StartConcurrently(p)
        \/ ChooseWorkspace(p)
        \/ GetLanguage(p)
        \/ GolangPackageAndVersion(p)
        \/ PackageJsonNameAndVersion(p)
        \/ Stat(p)
        \/ Mkdirp(p)
        \/ Copy(p)
        \/ ExecuteRefreshEntry(p)

SpecConcurrent == InitConcurrent /\ [][NextConcurrent]_vars

\* The destination of the JavaScript project foo, version 0.0.1, below pkgs.
OccupiedPath ==
    FinalDirectory(<<"pkgs">>, "/javascript/", Properties("foo", "0.0.1"))

\* The disk the command may find: nothing at the destination, a regular
\* file there, or a directory there.
OccupiedDisks ==
    LET above == Ancestors(OccupiedPath) \ {OccupiedPath} IN
    {[dirs |-> {}, files |-> {}],
     [dirs |-> above, files |-> {OccupiedPath}],
     [dirs |-> above \cup {OccupiedPath}, files |-> {}]}

InitOccupied ==
    /\ configuration = <<"pkgs">>
    /\ workspaceFolders \in ConcurrentWorkspaces
    /\ fs \in OccupiedDisks
    /\ run = [p \in Procs |-> IdleRun]
    /\ NoToggle

SpecOccupied == InitOccupied /\ [][Next]_vars

-----------------------------------------------------------------------------
(* toggleFabricRuntimeDevMode *)

\* FabricRuntimeManager.get: the runtime of the name, undefined for a name
\* the manager does not hold.
get(runtimeName) ==
    IF runtimeName \in RuntimeNames THEN runtimeName ELSE Undefined

isDevelopmentMode(runtime) == runtimes[runtime].developmentMode

\* FabricRuntime.setDevelopmentMode stores the value.
setDevelopmentMode(runtime, developmentMode) ==
    [runtimes EXCEPT ![runtime].developmentMode = developmentMode]

isRunning(runtime) == runtimes[runtime].running

\* FabricRuntime.restart: the runtime runs afterwards; a restart that
\* fails leaves it running or stopped.  The mode is not touched.
restart(runtime, restartFails) ==
    IF restartFails
    THEN {[runtimes EXCEPT ![runtime].running = b] : b \in BOOLEAN}
    ELSE {[runtimes EXCEPT ![runtime].running = TRUE]}

OutputAdapter == "VSCodeOutputAdapter.instance()"

\* Lines 30-33 with the mode left as it is.
SelectedKeepsMode(t, runtimeName) ==
    LET runtime == get(runtimeName) IN
    IF runtime = Undefined
    THEN [t EXCEPT !.runtimeName = runtimeName, !.pc = "done", !.result = "Rejected"]
    ELSE [t EXCEPT !.runtimeName = runtimeName,
                   !.oldDevelopmentMode = isDevelopmentMode(runtime),
                   !.newDevelopmentMode = isDevelopmentMode(runtime),
                   !.pc = "setDevelopmentMode"]

\* Lines 30-33 up to the await: reading the mode of an undefined runtime
\* throws and the invocation is rejected.
Selected(t, runtimeName) ==
    LET runtime == get(runtimeName) IN
    IF runtime = Undefined
    THEN [t EXCEPT !.runtimeName = runtimeName, !.pc = "done", !.result = "Rejected"]
    ELSE [t EXCEPT !.runtimeName = runtimeName,
                   !.oldDevelopmentMode = isDevelopmentMode(runtime),
                   !.newDevelopmentMode = ~isDevelopmentMode(runtime),
                   !.pc = "setDevelopmentMode"]

\* Lines 22-29: with a tree item its name is taken, without one the quick
\* pick is awaited.
ToggleFabricRuntimeDevMode(p) ==
    /\ toggle[p].pc = "idle"
    /\ \A q \in Procs : q < p => toggle[q].pc = "done"
    /\ \E runtimeTreeItem \in RuntimeNames \cup {Undefined} :
          LET t == [toggle[p] EXCEPT !.runtimeTreeItem = runtimeTreeItem,
                                     !.runtimesStart = runtimes]
          IN  toggle' = [toggle EXCEPT ![p] =
                  IF runtimeTreeItem = Undefined
                  THEN [t EXCEPT !.pc = "showRuntimeQuickPickBox"]
                  ELSE Selected(t, runtimeTreeItem)]
    /\ UNCHANGED <<configuration, workspaceFolders, fs, run, runtimes, explorer>>

\* Line 26: the quick pick resolves with a name, or with undefined when it
\* is dismissed.
ShowRuntimeQuickPickBox(p) ==
    /\ toggle[p].pc = "showRuntimeQuickPickBox"
    /\ \E pick \in RuntimeNames \cup {Undefined} :
          toggle' = [toggle EXCEPT ![p] =
              Selected([@ EXCEPT !.quickPicks = @ + 1], pick)]
    /\ UNCHANGED <<configuration, workspaceFolders, fs, run, runtimes, explorer>>

\* Line 33 going on to the running check with nothing stored.
SetDevelopmentModeLater(p) ==
    /\ toggle[p].pc = "setDevelopmentMode"
    /\ toggle' = [toggle EXCEPT ![p] =
           [@ EXCEPT !.trace = Append(@, "setDevelopmentMode"),
                     !.pc = "isRunning"]]
    /\ UNCHANGED <<configuration, workspaceFolders, fs, run, runtimes, explorer>>

\* Line 33: setDevelopmentMode has resolved.
SetDevelopmentMode(p) ==
    /\ toggle[p].pc = "setDevelopmentMode"
    /\ runtimes' = setDevelopmentMode(toggle[p].runtimeName,
                                      toggle[p].newDevelopmentMode)
    /\ toggle' = [toggle EXCEPT ![p] =
           [@ EXCEPT !.trace = Append(@, "setDevelopmentMode"),
                     !.pc = "isRunning"]]
    /\ UNCHANGED <<configuration, workspaceFolders, fs, run, explorer>>

\* Lines 34-45 without the return of a stopped runtime.
IsRunningIgnored(p) ==
    /\ toggle[p].pc = "isRunning"
    /\ toggle' = [toggle EXCEPT ![p] =
           [@ EXCEPT !.trace = Append(@, "isRunning"),
                     !.running = isRunning(toggle[p].runtimeName),
                     !.pc = "restart"]]
    /\ UNCHANGED <<configuration, workspaceFolders, fs, run, runtimes, explorer>>

\* Lines 34-37: a runtime that is not running ends the invocation.
IsRunning(p) ==
    /\ toggle[p].pc = "isRunning"
    /\ LET running == isRunning(toggle[p].runtimeName)
           t == [toggle[p] EXCEPT !.trace = Append(@, "isRunning"),
                                  !.running = running]
       IN  toggle' = [toggle EXCEPT ![p] =
               IF ~running
               THEN [t EXCEPT !.pc = "done", !.result = "Returned"]
               ELSE [t EXCEPT !.pc = "restart"]]
    /\ UNCHANGED <<configuration, workspaceFolders, fs, run, runtimes, explorer>>

\* Lines 38-46: restart(outputAdapter) inside withProgress; its rejection
\* rejects the invocation.
Restart(p) ==
    /\ toggle[p].pc = "restart"
    /\ \E restartFails \in BOOLEAN :
          /\ runtimes' \in restart(toggle[p].runtimeName, restartFails)
          /\ toggle' = [toggle EXCEPT ![p] =
                 [@ EXCEPT !.trace = Append(@, "restart"),
                           !.restarts = Append(@,
                               [outputAdapter |-> OutputAdapter,
                                developmentMode |->
                                    isDevelopmentMode(toggle[p].runtimeName)]),
                           !.pc = "done",
                           !.result = IF restartFails THEN "Rejected"
                                      ELSE "Returned"]]
    /\ UNCHANGED <<configuration, workspaceFolders, fs, run, explorer>>

InitToggle ==
    /\ configuration = <<"pkgs">>
    /\ workspaceFolders = [n \in {} |-> NoManifest]
    /\ fs = [dirs |-> {}, files |-> {}]
    /\ run = [p \in Procs |-> IdleRun]
    /\ runtimes \in Runtimes
    /\ toggle = [p \in Procs |-> IdleToggle]
    /\ explorer = NewExplorer

NextToggle ==
    \E p \in Procs :
        \/ ToggleFabricRuntimeDevMode(p)
        \/ ShowRuntimeQuickPickBox(p)
        \/ SetDevelopmentMode(p)
        \/ IsRunning(p)
        \/ Restart(p)

SpecToggle == InitToggle /\ [][NextToggle]_vars

-----------------------------------------------------------------------------
(* BlockchainPackageExplorerProvider *)

\* What may follow a leading '.' in a name of the model.
HiddenTails == {"foo" \o "@v" \o v : v \in {"0.0.1"}} \cup {"DS_Store"}

\* entry.startsWith('.')
StartsWithDot(entry) == \E rest \in HiddenTails : entry = "." \o rest

\* fs.readdir(dir): the names of the entries of the directory.
readdir(disk, dir, readdirFails) ==
    IF readdirFails
    THEN Throw(<<>>, SystemError("EACCES", "EACCES: permission denied"))
    ELSE IF dir \in disk.files
    THEN Throw(<<>>, SystemError("ENOTDIR", "ENOTDIR: not a directory"))
    ELSE IF dir \notin disk.dirs
    THEN Throw(<<>>, SystemError("ENOENT", "ENOENT: no such file or directory"))
    ELSE Return({q[Len(dir) + 1] :
                    q \in {e \in disk.dirs \cup disk.files :
                              Len(e) > Len(dir) /\ SubSeq(e, 1, Len(dir)) = dir}})

PackageSubDirectory(packageDir, packageLanguage) ==
    IF packageLanguage = "go"
    THEN packageDir \o <<"go", "src">>
    ELSE packageDir \o <<packageLanguage>>

\* Lines 72-113: the entries of every language directory that can be
\* read ('go' through its src), without the ones that start with '.'.
createPackageTree(disk, packageDir, packageLanguageArray) ==
    LET languages == {l \in packageLanguageArray : ~StartsWithDot(l)}
        read(l) == readdir(disk, PackageSubDirectory(packageDir, l), FALSE)
        listed == {l \in languages : ~read(l).threw}
        packageTitleArray == UNION {read(l).value : l \in listed}
    IN  [tree |-> {t \in packageTitleArray : ~StartsWithDot(t)},
         infos |-> {"Issue listing smart contract packages in:"
                        \o PathToString(PackageSubDirectory(packageDir, l)) :
                            l \in languages \ listed}]

HasWritten == {p \in Procs : run[p].result = "Written"}

\* Lines 34-65.  A package directory that is missing is created and gives
\* an empty tree; another error of readdir, or of mkdirp, is shown and
\* nothing is returned.
GetChildren ==
    \E readdirFails \in BOOLEAN :
    \E mkdirpFails \in BOOLEAN :
        LET packageDir == getBasePackageDir(configuration)
            read == readdir(fs, packageDir, readdirFails)
            made == mkdirp(packageDir, mkdirpFails)
            missing == read.threw /\ read.err.code = "ENOENT"
            listing == createPackageTree(fs, packageDir,
                           IF read.threw THEN {} ELSE read.value)
        IN  /\ missing \/ ~mkdirpFails
            /\ explorer' =
                  IF read.threw /\ ~missing
                  THEN [explorer EXCEPT
                           !.returned = FALSE,
                           !.errors = <<"Issue reading smart contract package folder:"
                                            \o PathToString(packageDir)>>,
                           !.infos = {},
                           !.after = {}]
                  ELSE IF missing /\ made.threw
                  THEN [explorer EXCEPT
                           !.returned = FALSE,
                           !.errors = <<"Issue creating smart contract package folder:"
                                            \o PathToString(packageDir)>>,
                           !.infos = {},
                           !.after = {}]
                  ELSE [tree |-> listing.tree, returned |-> TRUE, errors |-> <<>>,
                        infos |-> listing.infos, after |-> HasWritten]
            /\ fs' = IF missing /\ ~made.threw THEN made.value ELSE fs
            /\ UNCHANGED <<configuration, workspaceFolders, run, runtimes, toggle>>

\* The folders the explorer is checked with: one folder holding a
\* JavaScript project, one whose name starts with '.', a TypeScript or a
\* Go project.
ExplorerWorkspaces ==
    {[n \in {"project"} |-> c] :
        c \in {[src |-> {ChaincodeJs}, manifest |-> Manifest("foo", "0.0.1")],
               [src |-> {ChaincodeJs}, manifest |-> Manifest(".foo", "0.0.1")],
               [src |-> {ChaincodeJs, ChaincodeTs}, manifest |-> Manifest("foo", "0.0.1")],
               [src |-> {ChaincodeGo}, manifest |-> NoManifest]}}

InitExplorer ==
    /\ configuration \in PackageDirectories
    /\ workspaceFolders \in ExplorerWorkspaces
    /\ fs = [dirs |-> {}, files |-> {}]
    /\ run = [p \in Procs |-> IdleRun]
    /\ NoToggle

NextExplorer ==
    \/ \E p \in Procs :
          \/ Start(p)
          \/ ChooseWorkspace(p)
          \/ GetLanguage(p)
          \/ GolangPackageAndVersion(p)
          \/ PackageJsonNameAndVersion(p)
          \/ Stat(p)
          \/ Mkdirp(p)
          \/ Copy(p)
          \/ ExecuteRefreshEntry(p)
    \/ GetChildren

SpecExplorer == InitExplorer /\ [][NextExplorer]_vars

TypeOK ==
    /\ configuration \in PackageDirectories
    /\ workspaceFolders \in Workspaces \cup ExplorerWorkspaces
    /\ \A p \in Procs :
          /\ run[p].pc \in {"idle", "chooseWorkspace", "getLanguage",
                             "golangPackageAndVersion", "packageJsonNameAndVersion",
                             "stat", "mkdirp", "copy", "refreshEntry", "done"}
          /\ run[p].result \in {"none", "Written", "Failed"}
          /\ (run[p].result = "none") = (run[p].pc # "done")
          /\ toggle[p].pc \in {"idle", "showRuntimeQuickPickBox", "setDevelopmentMode",
                                "isRunning", "restart", "done"}
          /\ toggle[p].result \in {"none", "Returned", "Rejected"}
          /\ (toggle[p].result = "none") = (toggle[p].pc # "done")
    /\ runtimes \in Runtimes

-----------------------------------------------------------------------------
(* Properties *)

Done(p) == run[p].pc = "done"

\* The invocation has ended and no later one has started.
Last(p) == Done(p) /\ \A q \in Procs : q > p => run[q].pc = "idle"

Called(p, function) == function \in Range(run[p].trace)

\* The project an invocation packages.
Project(p) == ProjectAt(run[p].workspaceDir)

\* The project holds a file of the extension outside node_modules.
Has(p, ext) ==
    \E f \in FilesOf(Project(p)) :
        f.ext = ext /\ \A i \in 1..Len(f.dir) : f.dir[i] # "node_modules"

\* getLanguage ran on a folder.
Detected(p) == Called(p, "getLanguage") /\ run[p].workspaceDir # UndefinedPath

\* The package directory with "~" replaced by the home directory.
PackageRoot ==
    IF configuration[1] = "~"
    THEN <<"home", "user">> \o SubSeq(configuration, 2, Len(configuration))
    ELSE configuration

\* C1: getLanguage follows the precedence table: ts and js give TypeScript
\* whatever else is there, ts without js fails with the message about
\* compiling, else go gives Go, else js gives JavaScript, else the language
\* is unknown.
C1_LanguagePrecedence ==
    \A p \in Procs : Detected(p) =>
        LET js == Has(p, "js")
            ts == Has(p, "ts")
            go == Has(p, "go")
            r == run[p]
        IN  /\ (ts /\ js) => r.language = "/typescript/"
            /\ (ts /\ ~js) =>
                    /\ r.language = Undefined
                    /\ r.result = "Failed"
                    /\ r.errors[1] = MsgCompile
            /\ (~ts /\ go) => r.language = "/go/src/"
            /\ (~ts /\ ~go /\ js) => r.language = "/javascript/"
            /\ (~ts /\ ~go /\ ~js) =>
                    /\ r.language = Undefined
                    /\ r.result = "Failed"
                    /\ r.errors[1] = MsgLanguage

\* A project with js, ts and go files was classified TypeScript.
C1_Witness ==
    \E p \in Procs :
        /\ Detected(p)
        /\ Has(p, "js") /\ Has(p, "ts") /\ Has(p, "go")
        /\ run[p].language = "/typescript/"

\* C2: an invocation that follows a successful one with the same answers
\* and no failing disk fails with the message of the existing package and
\* leaves the disk as it found it.
C2_SecondRunFails ==
    \A p \in Procs :
        (/\ p > 1
         /\ Last(p)
         /\ run[p - 1].result = "Written"
         /\ run[p].input = run[p - 1].input)
        => /\ run[p].result = "Failed"
           /\ run[p].errors[1] = ExistsMessage(run[p].language)
           /\ run[p].infos = <<>>
           /\ run[p].commands = <<>>
           /\ ~Called(p, "createAndPackage")
           /\ fs = run[p].fsStart

\* The second of two invocations with the same answers found the package
\* of the first.
C2_Witness ==
    \E p \in Procs :
        /\ p > 1
        /\ Last(p)
        /\ run[p - 1].result = "Written"
        /\ run[p].input = run[p - 1].input
        /\ run[p].dir = run[p - 1].dir
        /\ run[p].dir \in fs.dirs

\* The user answered both Go prompts with non-empty text.
GoAnswered(p) ==
    /\ run[p].language = "/go/src/"
    /\ Called(p, "golangPackageAndVersion")
    /\ Truthy(run[p].input.name)
    /\ Truthy(run[p].input.version)

\* C3: a Go project with a name and a version typed at the prompts, and no
\* package at the destination yet, is packaged into
\* <packageRoot>/go/src/<name>@v<version>, with one success notification
\* and no error notification.
C3_GoPackaged ==
    \A p \in Procs :
        LET dest == PackageRoot
                        \o <<"go", "src", run[p].input.name \o "@v" \o run[p].input.version>>
        IN  (Last(p) /\ GoAnswered(p) /\ dest \notin run[p].fsStart.dirs)
            => /\ run[p].result = "Written"
               /\ dest \in fs.dirs
               /\ \A f \in FilesOf(Project(p)) : dest \o RelativePath(f) \in fs.files
               /\ Len(run[p].infos) = 1
               /\ run[p].errors = <<>>

\* The directory name + '@v' + version of what was resolved.
PackageName(p) ==
    IF run[p].language = "/go/src/"
    THEN run[p].input.name \o "@v" \o StringOf(run[p].input.version)
    ELSE Project(p).manifest.name \o "@v" \o Project(p).manifest.version

LanguageDirectory(p) ==
    CASE run[p].language = "/javascript/" -> <<"javascript">>
      [] run[p].language = "/typescript/" -> <<"typescript">>
      [] run[p].language = "/go/src/" -> <<"go", "src">>

\* C4: the destination of a successful invocation is the package
\* directory, the directory of the language (javascript, typescript or
\* go/src) and name@vversion; invocations with the same package directory,
\* language, name and version compute the same destination.
C4_DestinationPath ==
    /\ \A p \in Procs : run[p].result = "Written" =>
          /\ run[p].dir = PackageRoot \o LanguageDirectory(p) \o <<PackageName(p)>>
          /\ run[p].dir \in fs.dirs
          /\ run[p].infos = <<MsgPackaged \o PathToString(run[p].dir)>>
    /\ \A p, q \in Procs :
          (/\ run[p].dir # UndefinedPath
           /\ run[q].dir # UndefinedPath
           /\ run[p].packageDir = run[q].packageDir
           /\ run[p].language = run[q].language
           /\ run[p].properties = run[q].properties)
          => run[p].dir = run[q].dir

\* A Go project was written below go/src.
C4_Witness ==
    \E p \in Procs :
        /\ run[p].result = "Written"
        /\ run[p].language = "/go/src/"
        /\ configuration[1] = "~"
        /\ run[p].dir \in fs.dirs

\* C5: once the copy has completed, the destination holds every file and
\* directory of the folder at the same relative path, the files that are
\* no chaincode included.
C5_WholeTreeCopied ==
    \A p \in Procs : run[p].infos # <<>> =>
        \A f \in FilesOf(Project(p)) :
            /\ run[p].dir \o RelativePath(f) \in fs.files
            /\ run[p].dir \o f.dir \in fs.dirs

\* A TypeScript project was written with chaincode.js, chaincode.ts,
\* package.json and node_modules.
C5_Witness ==
    \E p \in Procs :
        /\ run[p].result = "Written"
        /\ run[p].language = "/typescript/"
        /\ {ChaincodeJs, ChaincodeTs, DependencyJs, PackageJsonFile} \subseteq FilesOf(Project(p))
        /\ run[p].dir \o <<"package.json">> \in fs.files

\* The project has ts files and no js file.
Uncompiled(p) == Detected(p) /\ Has(p, "ts") /\ ~Has(p, "js")

\* C6: a project with ts files and no js file fails with the message about
\* compiling; nothing on the disk changes, no destination exists
\* afterwards, an error is shown and no success notification.
C6_UncompiledFails ==
    \A p \in Procs : (Last(p) /\ Uncompiled(p)) =>
        /\ run[p].result = "Failed"
        /\ run[p].errors[1] = MsgCompile
        /\ run[p].infos = <<>>
        /\ run[p].commands = <<>>
        /\ fs = run[p].fsStart
        /\ ~Called(p, "fs.mkdirp")
        /\ run[p].dir = UndefinedPath
        /\ \A language \in {<<"typescript">>, <<"javascript">>, <<"go", "src">>} :
              PackageRoot \o language
                  \o <<StringOf(Project(p).manifest.name) \o "@v"
                          \o StringOf(Project(p).manifest.version)>> \notin fs.dirs

C6_Witness ==
    \E p \in Procs :
        /\ Last(p)
        /\ Uncompiled(p)
        /\ Has(p, "go")
        /\ DependencyJs \in FilesOf(Project(p))
        /\ run[p].result = "Failed"

\* The manifest of a JavaScript or TypeScript project lacks its name or
\* its version.
ManifestIncomplete(p) ==
    /\ run[p].language \in {"/javascript/", "/typescript/"}
    /\ Called(p, "packageJsonNameAndVersion")
    /\ Project(p).manifest.present
    /\ \/ Project(p).manifest.name \in {Undefined, ""}
       \/ Project(p).manifest.version \in {Undefined, ""}

\* C7: a JavaScript or TypeScript project whose manifest has no name or no
\* version (absent or empty) fails with the message about package.json
\* before any directory is created.
C7_ManifestFieldFails ==
    \A p \in Procs : (Last(p) /\ ManifestIncomplete(p)) =>
        /\ run[p].result = "Failed"
        /\ run[p].errors[1] = MsgPackageJson
        /\ run[p].infos = <<>>
        /\ run[p].commands = <<>>
        /\ ~Called(p, "fs.stat")
        /\ ~Called(p, "fs.mkdirp")
        /\ fs = run[p].fsStart
        /\ run[p].dir = UndefinedPath

\* A manifest with a name and an empty version failed.
C7_Witness ==
    \E p \in Procs :
        /\ Last(p)
        /\ ManifestIncomplete(p)
        /\ Project(p).manifest.name = "foo"
        /\ Project(p).manifest.version = ""
        /\ run[p].result = "Failed"

\* The user cancelled the name prompt, or answered it and cancelled the
\* version prompt.
GoCancelled(p) ==
    /\ Called(p, "golangPackageAndVersion")
    /\ \/ run[p].input.name = Undefined
       \/ Truthy(run[p].input.name) /\ run[p].input.version = Undefined

\* C8: when the user cancels a Go prompt the invocation ends with no error
\* notification, no change of the disk, no success notification and no
\* refresh.
C8_GoCancelSilent ==
    \A p \in Procs : (Last(p) /\ GoCancelled(p)) =>
        /\ run[p].errors = <<>>
        /\ run[p].infos = <<>>
        /\ run[p].commands = <<>>
        /\ fs = run[p].fsStart

\* Several folders are open and the user cancelled the quick pick.
QuickPickCancelled(p) ==
    /\ Cardinality(DOMAIN workspaceFolders) > 1
    /\ Called(p, "chooseWorkspace")
    /\ ~run[p].input.retrievalFails
    /\ run[p].input.pick = Undefined

\* C9: when the user cancels the quick pick of the folder no later stage
\* runs and no error notification is shown.
C9_QuickPickCancelSilent ==
    \A p \in Procs : (Done(p) /\ QuickPickCancelled(p)) =>
        /\ run[p].trace = <<"chooseWorkspace">>
        /\ run[p].errors = <<>>

\* No folder is open, or the list of folders could not be retrieved.
NoWorkspace(p) ==
    /\ Called(p, "chooseWorkspace")
    /\ DOMAIN workspaceFolders = {} \/ run[p].input.retrievalFails

\* C10: with no open folder, or a list of folders that cannot be
\* retrieved, the invocation fails with the message about the workspace
\* folders and no later stage runs.
C10_NoWorkspaceFails ==
    \A p \in Procs : NoWorkspace(p) =>
        /\ run[p].result = "Failed"
        /\ run[p].errors[1] = MsgWorkspaceFolders
        /\ run[p].trace = <<"chooseWorkspace">>
        /\ run[p].infos = <<>>
        /\ run[p].commands = <<>>

\* An invocation with no open folder failed.
C10_Witness ==
    \E p \in Procs :
        /\ NoWorkspace(p)
        /\ DOMAIN workspaceFolders = {}
        /\ ~run[p].input.retrievalFails
        /\ run[p].result = "Failed"


\* The user answered a Go prompt with the empty string: the name prompt,
\* or the version prompt after a name.
GoEmpty(p) ==
    /\ Called(p, "golangPackageAndVersion")
    /\ \/ run[p].input.name = ""
       \/ Truthy(run[p].input.name) /\ run[p].input.version = ""

\* C11: a Go invocation given an empty name or an empty version fails with
\* the message asking for a name or version, and creates no destination.
C11_GoEmptyFails ==
    \A p \in Procs : (Last(p) /\ GoEmpty(p)) =>
        /\ run[p].result = "Failed"
        /\ run[p].errors[1] = MsgGoInput
        /\ ~Called(p, "fs.mkdirp")
        /\ fs = run[p].fsStart

\* C12: over a successful invocation and the invocation with the same
\* answers that follows it, showErrorMessage is called once.
C12_ErrorShownOnce ==
    \A p \in Procs :
        (/\ p > 1
         /\ Last(p)
         /\ run[p - 1].result = "Written"
         /\ run[p].input = run[p - 1].input)
        => Len(run[p - 1].errors) + Len(run[p].errors) = 1

\* The project has no js, ts or go file outside node_modules.
NoChaincode(p) ==
    Detected(p) /\ ~Has(p, "js") /\ ~Has(p, "ts") /\ ~Has(p, "go")

\* C13: a project without js, ts or go files fails with the message about
\* the language; no manifest is read, no prompt shown, nothing created, an
\* error is shown and no success notification.
C13_UnknownLanguageFails ==
    \A p \in Procs : (Last(p) /\ NoChaincode(p)) =>
        /\ run[p].result = "Failed"
        /\ run[p].errors = <<MsgLanguage, "Error: " \o MsgLanguage>>
        /\ ~Called(p, "packageJsonNameAndVersion")
        /\ ~Called(p, "golangPackageAndVersion")
        /\ run[p].input.name = Undefined
        /\ ~Called(p, "fs.stat")
        /\ ~Called(p, "fs.mkdirp")
        /\ fs = run[p].fsStart
        /\ run[p].infos = <<>>
        /\ run[p].commands = <<>>

\* A project holding only package.json and node_modules/dep.js failed.
C13_Witness ==
    \E p \in Procs :
        /\ Last(p)
        /\ NoChaincode(p)
        /\ FilesOf(Project(p)) = {PackageJsonFile, DependencyJs}
        /\ run[p].result = "Failed"


\* C14: an invocation that reaches Written has shown 'Smart Contract
\* packaged: <path>' once and no error; an invocation that ends otherwise
\* has not shown it.
C14_SuccessShownOnce ==
    \A p \in Procs :
        /\ run[p].result = "Written" =>
              /\ run[p].infos = <<MsgPackaged \o PathToString(run[p].dir)>>
              /\ run[p].errors = <<>>
        /\ (Done(p) /\ run[p].result # "Written") => run[p].infos = <<>>
        /\ Len(run[p].infos) <= 1

\* A copy failed after the directory was made, and nothing was announced.
C14_Witness ==
    \E p, q \in Procs :
        /\ run[p].result = "Written"
        /\ run[q].result = "Failed"
        /\ run[q].input.copyFails
        /\ run[q].infos = <<>>

\* The copy of an invocation has completed.
Copied(p) == Called(p, "fs.copy") /\ run[p].infos # <<>>

\* C15: an invocation that has written the package executes the refresh
\* command before it returns, and the command is executed only after the
\* copy has completed.
C15_RefreshAfterCopy ==
    \A p \in Procs :
        /\ (Done(p) /\ Copied(p)) => run[p].commands = <<RefreshEntry>>
        /\ run[p].commands # <<>> =>
              /\ Copied(p)
              /\ run[p].trace[Len(run[p].trace)] = "fs.copy"
              /\ \A f \in FilesOf(Project(p)) :
                    run[p].dir \o RelativePath(f) \in fs.files

\* A package was written and the refresh command executed.
C15_Witness ==
    \E p \in Procs :
        /\ Done(p)
        /\ Copied(p)
        /\ run[p].commands = <<RefreshEntry>>

\* C17: an invocation that has shown an error has ended, with no success
\* notification and no refresh; when the failure was before
\* createAndPackage, no directory was made and nothing copied.
C17_FailFast ==
    \A p \in Procs :
        /\ run[p].errors # <<>> =>
              /\ Done(p)
              /\ run[p].result = "Failed"
              /\ run[p].infos = <<>>
              /\ run[p].commands = <<>>
        /\ (run[p].errors # <<>> /\ ~Called(p, "createAndPackage")) =>
              /\ ~Called(p, "fs.mkdirp")
              /\ ~Called(p, "fs.copy")
              /\ Last(p) => fs = run[p].fsStart

\* An invocation failed at the probe, on a disk that holds a package.
C17_Witness ==
    \E p \in Procs :
        /\ Last(p)
        /\ run[p].trace[Len(run[p].trace)] = "fs.stat"
        /\ run[p].errors # <<>>
        /\ fs.files # {}

\* C18: for a project classified as Go package.json is never read; name
\* and version are the answers of the two prompts.
C18_GoReadsNoManifest ==
    \A p \in Procs : run[p].language = "/go/src/" =>
        /\ ~Called(p, "packageJsonNameAndVersion")
        /\ run[p].pc \notin {"golangPackageAndVersion", "packageJsonNameAndVersion"} =>
              Called(p, "golangPackageAndVersion")
        /\ run[p].properties.defined =>
              /\ run[p].properties.workspacePackageName = run[p].input.name
              /\ run[p].properties.workspacePackageVersion = run[p].input.version

\* A Go project that also holds a package.json was written under the name
\* typed at the prompt.
C18_Witness ==
    \E p \in Procs :
        /\ run[p].language = "/go/src/"
        /\ Project(p).manifest.present
        /\ Project(p).manifest.name = "foo"
        /\ run[p].properties.defined
        /\ run[p].properties.workspacePackageName = "goProject"
        /\ run[p].result = "Written"

\* fs.mkdirp or fs.copy was rejected.
WriteFailed(p) ==
    /\ Called(p, "createAndPackage")
    /\ run[p].input.mkdirpFails \/ run[p].input.copyFails

\* C19: when fs.mkdirp or fs.copy fails the invocation ends Failed with the
\* error shown, no success notification and no refresh, and what was
\* created stays on the disk.
C19_WriteFailureKeepsDirectory ==
    \A p \in Procs : WriteFailed(p) =>
        /\ Done(p)
        /\ run[p].result = "Failed"
        /\ Len(run[p].errors) = 2
        /\ run[p].infos = <<>>
        /\ run[p].commands = <<>>
        /\ run[p].input.copyFails => Ancestors(run[p].dir) \subseteq fs.dirs
        /\ run[p].fsStart.dirs \subseteq fs.dirs
        /\ run[p].fsStart.files \subseteq fs.files

\* A copy failed after one file of several was written.
C19_Witness ==
    \E p \in Procs :
        /\ WriteFailed(p)
        /\ run[p].input.copyFails
        /\ run[p].dir \in fs.dirs
        /\ \E f, g \in FilesOf(Project(p)) :
              /\ run[p].dir \o RelativePath(f) \in fs.files
              /\ run[p].dir \o RelativePath(g) \notin fs.files


\* The calls of a whole invocation, in the order of the code.
StageOrder(resolver) ==
    <<"chooseWorkspace", "getFinalDirectory", "getLanguage", resolver,
      "fs.stat", "createAndPackage", "fs.mkdirp", "fs.copy">>

IsPrefix(s, t) == Len(s) <= Len(t) /\ \A i \in 1..Len(s) : s[i] = t[i]

\* What the user has seen of an invocation that has ended.
Outcome(p) ==
    IF Copied(p) /\ run[p].commands # <<>> THEN "Written"
    ELSE IF run[p].errors # <<>> THEN "Failed"
    ELSE "Aborted"

Cancelled(p) == GoCancelled(p) \/ QuickPickCancelled(p)

\* C16: an invocation passes its stages in the order workspace, language,
\* name and version, destination, writing, and ends in one outcome;
\* it ends with neither a package nor an error only when the user
\* cancelled a prompt, and any other invocation that wrote no package has
\* shown an error.
C16_OrderedOutcome ==
    \A p \in Procs :
        /\ \/ IsPrefix(run[p].trace, StageOrder("golangPackageAndVersion"))
           \/ IsPrefix(run[p].trace, StageOrder("packageJsonNameAndVersion"))
        /\ Done(p) =>
              /\ run[p].result \in {"Written", "Failed"}
              /\ Outcome(p) = "Aborted" => Cancelled(p)
              /\ (~Cancelled(p) /\ Outcome(p) # "Written") =>
                    /\ Outcome(p) = "Failed"
                    /\ run[p].result = "Failed"
                    /\ run[p].errors # <<>>
              /\ Outcome(p) = "Written" <=> run[p].result = "Written"
              /\ Outcome(p) = "Written" =>
                    \E resolver \in {"golangPackageAndVersion",
                                      "packageJsonNameAndVersion"} :
                        run[p].trace = StageOrder(resolver)

\* One invocation went through every stage and the next one failed at the
\* name and version with no prompt cancelled.
C16_Witness ==
    \E p, q \in Procs :
        /\ Done(p)
        /\ Outcome(p) = "Written"
        /\ run[p].trace = StageOrder("packageJsonNameAndVersion")
        /\ Done(q)
        /\ ~Cancelled(q)
        /\ Outcome(q) = "Failed"
        /\ Len(run[q].trace) = 4


\* The probe of the invocation found no directory at its destination.
PassedProbe(p) ==
    /\ Called(p, "fs.stat")
    /\ run[p].dir # UndefinedPath
    /\ run[p].pc \in {"mkdirp", "copy", "refreshEntry"} \/ Called(p, "createAndPackage")

\* Two invocations hold the same destination, both past the probe.
SameDestination(p, q) ==
    /\ p # q
    /\ PassedProbe(p)
    /\ PassedProbe(q)
    /\ run[p].dir = run[q].dir

\* C20: two concurrent invocations with the same destination can both pass
\* the probe and both create and copy; the check of the existing package
\* rejects neither, and each that meets no file system fault reports its
\* package as written.
C20_ProbeIsRacy ==
    \A p, q \in Procs : SameDestination(p, q) =>
        /\ ExistsMessage(run[p].language) \notin Range(run[p].errors)
        /\ run[p].dir \notin run[p].fsStart.dirs
        /\ (Done(p) /\ ~WriteFailed(p)) =>
              /\ run[p].result = "Written"
              /\ run[p].infos = <<MsgPackaged \o PathToString(run[p].dir)>>
              /\ run[p].errors = <<>>

\* Both invocations saw no directory and both have entered createAndPackage
\* for the same path.
C20_Witness ==
    \E p, q \in Procs :
        /\ SameDestination(p, q)
        /\ Called(p, "createAndPackage")
        /\ Called(q, "createAndPackage")
        /\ run[p].result = "Written"
        /\ run[q].result = "Written"


\* C23: createAndPackage is called only with the path the probe found
\* nothing at; when a directory or another entry is at the path, or
\* fs.stat fails otherwise, it is not called, and never with an undefined
\* destination.
C23_CreateOnlyWhenAbsent ==
    \A p \in Procs : Called(p, "createAndPackage") =>
        /\ run[p].dir # UndefinedPath
        /\ ~run[p].input.statFails
        /\ run[p].dir \notin run[p].fsStart.dirs \cup run[p].fsStart.files

\* The retry of q after p: same package directory, language, name and
\* version, with a probe that answered.
RetryOf(p, q) ==
    /\ p < q
    /\ Called(p, "fs.copy")
    /\ run[p].input.copyFails
    /\ Called(q, "fs.stat")
    /\ ~run[q].input.statFails
    /\ run[q].packageDir = run[p].packageDir
    /\ run[q].language = run[p].language
    /\ run[q].properties = run[p].properties

\* C24: after an invocation whose copy failed, every invocation with the
\* same package directory, language, name and version fails with the
\* message of the existing package and does not create or copy.
C24_RetryAfterFailedCopy ==
    \A p, q \in Procs : RetryOf(p, q) =>
        /\ run[q].result = "Failed"
        /\ run[q].errors[1] = ExistsMessage(run[q].language)
        /\ ~Called(q, "createAndPackage")
        /\ run[q].infos = <<>>
        /\ run[q].commands = <<>>
        /\ run[q].dir \in run[q].fsStart.dirs

\* A retry failed and a file of the folder is still missing from the
\* package.
C24_Witness ==
    \E p, q \in Procs :
        /\ RetryOf(p, q)
        /\ Last(q)
        /\ run[q].result = "Failed"
        /\ \E f \in FilesOf(Project(q)) :
              run[q].dir \o RelativePath(f) \notin fs.files


\* The invocation of the toggle no later one has followed.
Current(p) ==
    /\ toggle[p].pc # "idle"
    /\ \A q \in Procs : q > p => toggle[q].pc = "idle"

\* The toggle has a runtime and setDevelopmentMode has resolved.
Toggled(p) ==
    /\ toggle[p].runtimeName \in RuntimeNames
    /\ toggle[p].pc \in {"isRunning", "restart", "done"}

\* C21: the toggle sets the mode of the selected runtime to the negation
\* of what it was before the call, running or stopped, from the tree item
\* or from the quick pick, and leaves the other runtimes alone; the quick
\* pick is shown once when no tree item is passed and not at all
\* otherwise.
C21_ModeNegated ==
    \A p \in Procs :
        /\ (Current(p) /\ Toggled(p)) =>
              \A n \in RuntimeNames :
                  runtimes[n].developmentMode =
                      IF n = toggle[p].runtimeName
                      THEN ~toggle[p].runtimesStart[n].developmentMode
                      ELSE toggle[p].runtimesStart[n].developmentMode
        /\ toggle[p].runtimeTreeItem # Undefined =>
              /\ toggle[p].quickPicks = 0
              /\ toggle[p].pc # "idle" => toggle[p].runtimeName = toggle[p].runtimeTreeItem
        /\ (toggle[p].pc \notin {"idle", "showRuntimeQuickPickBox"}
                /\ toggle[p].runtimeTreeItem = Undefined) =>
              toggle[p].quickPicks = 1

\* A running runtime chosen in the quick pick had its mode switched off.
C21_Witness ==
    \E p \in Procs :
        /\ Current(p)
        /\ toggle[p].pc = "done"
        /\ toggle[p].runtimeTreeItem = Undefined
        /\ toggle[p].runtimeName = "local_fabric"
        /\ toggle[p].running
        /\ toggle[p].runtimesStart["local_fabric"].developmentMode
        /\ ~runtimes["local_fabric"].developmentMode

\* C22: the toggle calls restart once, with the output adapter, when the
\* runtime says it is running, and never when it says it is not.
C22_RestartWhenRunning ==
    \A p \in Procs :
        /\ Len(toggle[p].restarts) <= 1
        /\ toggle[p].restarts # <<>> =>
              /\ "isRunning" \in Range(toggle[p].trace)
              /\ toggle[p].running
              /\ toggle[p].restarts[1].outputAdapter = OutputAdapter
        /\ (toggle[p].pc = "done" /\ "isRunning" \in Range(toggle[p].trace)) =>
              Len(toggle[p].restarts) = IF toggle[p].running THEN 1 ELSE 0

\* One toggle restarted a running runtime and one left a stopped runtime
\* alone.
C22_Witness ==
    \E p, q \in Procs :
        /\ toggle[p].pc = "done"
        /\ toggle[p].running
        /\ Len(toggle[p].restarts) = 1
        /\ toggle[q].pc = "done"
        /\ "isRunning" \in Range(toggle[q].trace)
        /\ ~toggle[q].running
        /\ toggle[q].restarts = <<>>

\* C25: setDevelopmentMode has resolved before isRunning and restart are
\* called, so the runtime has the new mode when restart is called, and it
\* keeps it when the restart fails.
C25_ModeStoredBeforeRestart ==
    \A p \in Procs :
        /\ IsPrefix(toggle[p].trace, <<"setDevelopmentMode", "isRunning", "restart">>)
        /\ \A i \in 1..Len(toggle[p].restarts) :
              toggle[p].restarts[i].developmentMode = toggle[p].newDevelopmentMode
        /\ (Current(p) /\ toggle[p].pc \in {"isRunning", "restart"}) =>
              runtimes[toggle[p].runtimeName].developmentMode
                  = toggle[p].newDevelopmentMode
        /\ (Current(p) /\ toggle[p].result = "Rejected"
                /\ toggle[p].restarts # <<>>) =>
              runtimes[toggle[p].runtimeName].developmentMode
                  = toggle[p].newDevelopmentMode

\* A restart failed, the runtime is stopped and has the new mode.
C25_Witness ==
    \E p \in Procs :
        /\ Current(p)
        /\ toggle[p].result = "Rejected"
        /\ toggle[p].restarts # <<>>
        /\ ~runtimes[toggle[p].runtimeName].running
        /\ toggle[p].newDevelopmentMode
        /\ runtimes[toggle[p].runtimeName].developmentMode


\* The title of the package of an invocation: name@vversion.
PackageTitle(p) ==
    StringOf(run[p].properties.workspacePackageName) \o "@v"
        \o StringOf(run[p].properties.workspacePackageVersion)

\* C26: a getChildren that returns a tree after an invocation has written
\* its package has an item titled name@vversion for it, whatever the
\* language.
C26_WrittenIsListed ==
    \A p \in explorer.after :
        explorer.returned => PackageTitle(p) \in explorer.tree

====
